---- MODULE Spec2Model ----
(***************************************************************************)
(* EventPlayback (src/main.py): the Player's replay threads under the      *)
(* controller's set_events / set_loop / start / stop, and the Recorder's   *)
(* notification handlers under start / stop.                               *)
(*                                                                         *)
(* A replay thread keeps the time elapsed since its pass's reference       *)
(* instant (perf_counter() - start) in ticks, saturated at the largest     *)
(* timestamp of any timeline: beyond it every wait is <= 0, so the         *)
(* saturation loses nothing.                                               *)
(***************************************************************************)
EXTENDS Integers, Sequences, FiniteSets, TLC

\* ------------------------------------------------------------- bounds
MaxLen == 2
MaxLoop == 2
MaxNotes == 2
MaxClock == 4

\* Recorder.INTERVAL = 0.02 s, in recorder ticks of 10 ms
INTERVAL == 2

\* Recorder.EXCLUDED_HOTKEYS
EXCLUDED_HOTKEYS == {"f9", "f10", "escape"}

\* ------------------------------------------------------------- helpers
Min(a, b) == IF a < b THEN a ELSE b
Max(a, b) == IF a > b THEN a ELSE b

\* The i-th event of the reference timeline: timestamps 0, 1, 2, ... ticks.
EventAt(i) ==
    [type |-> IF i % 2 = 1 THEN "mouse_move" ELSE "key_press", timestamp |-> i - 1]

OtherEvent == [type |-> "mouse_click", timestamp |-> 0]

\* The caller's sequences: every prefix of the reference timeline, and the
\* longest one with its first element replaced.
Timelines ==
    { [i \in 1..n |-> EventAt(i)] : n \in 0..MaxLen }
    \cup { [i \in 1..MaxLen |-> IF i = 1 THEN OtherEvent ELSE EventAt(i)] }

MaxTs == MaxLen - 1
LogCap == MaxLoop * MaxLen
LoopArgs == (0 - 1)..MaxLoop
\* The replay threads: the one start() launched last, and one more that is
\* alive because an earlier stop() gave up waiting for it.
Threads == {1, 2}

VARIABLES
    callerList,     \* the caller's list object L (its current content)
    p_events,       \* Player._events: a reference to a list object
    p_playing,      \* Player._playing
    p_stop_flag,    \* Player._stop_flag
    p_loop_count,   \* Player._loop_count
    p_thread,       \* Player._thread: the last thread launched, 0 for None
    on_complete,    \* Player.on_complete is set
    on_error,       \* Player.on_error is set
    cpc,            \* the controller: "idle", or "stopping" inside stop()
    th,             \* the replay threads: pc, loop, iterator, elapsed time
    gh,             \* per thread: what it injected and called back (history)
    handed          \* the content of L at the last set_events(L) (history)

pvars == <<callerList, p_events, p_playing, p_stop_flag, p_loop_count, p_thread,
           on_complete, on_error, cpc, th, gh, handed>>

VARIABLES
    now,            \* time.perf_counter(), in ticks of 10 ms
    r_events,       \* Recorder._events
    r_start_time,   \* Recorder._start_time
    r_recording,    \* Recorder._recording
    r_last_move,    \* Recorder._last_move
    listening,      \* per device: its listener is running
    hd,             \* per device: the handler its listener thread is in
    rcpc,           \* the controller: "idle", or its place inside stop()
    returned,       \* the list object the last stop() returned (a reference)
    notes,          \* notifications delivered so far
    r_lock          \* Recorder._lock: "free", or the device whose handler holds it

rvars == <<now, r_events, r_start_time, r_recording, r_last_move, listening, hd,
           rcpc, returned, notes, r_lock>>

VARIABLES
    a_state,        \* App._state
    a_pending,      \* App._pending
    a_countdown,    \* App._countdown
    a_timer,        \* the countdown timer (App._countdown_id) is scheduled
    a_seen,         \* the _on_complete callbacks the main loop has run
    apc,            \* the main thread: "idle", or its place inside a handler
    a_meta,         \* App.macro.name and App.macro.created_at
    a_file,         \* the content of the file _save writes and _open reads
    a_toast         \* the last message of _save or _open

avars == <<a_state, a_pending, a_countdown, a_timer, a_seen, apc, a_meta, a_file,
           a_toast>>

VARIABLES
    k_native,       \* the native key the keyboard listener reports
    k_name,         \* the name the Recorder stores for it
    k_key,          \* the native key the Player makes of the name
    k_pc            \* "pressed", "recorded", "replayed"

kvars == <<k_native, k_name, k_key, k_pc>>

VARIABLES
    d_event,        \* the Event handed to Player._play_event
    d_log,          \* the calls made on the mouse and keyboard controllers
    d_pc            \* "event", "played"

dvars == <<d_event, d_log, d_pc>>

\* Everything but the Player and the Recorder.
xvars == <<avars, kvars, dvars>>

vars == <<pvars, rvars, xvars>>

\* A list reference: the Player's own list object (val), or, if alias, the
\* caller's list object itself.
Deref(ref) == IF ref.alias THEN callerList ELSE ref.val

NoList == [alias |-> FALSE, val |-> <<>>]

NoThread == [pc |-> "none", loop |-> 0, iter |-> NoList, idx |-> 0, elapsed |-> 0]

\* History of one thread.  n0, ev0: the loop count and the timeline at its
\* launch.  inj, ordered: how many events it has injected, and whether each
\* was the next one of ev0 repeated over and over.  stopped: stop() has set
\* the flag since its launch (stopMid: during a pass of it).  reconf:
\* set_events or set_loop was called since its launch.  raised, errs: the
\* injections that raised and the on_error calls, counted up to 2.
NoHistory ==
    [n0 |-> 0, ev0 |-> <<>>, inj |-> 0, ordered |-> TRUE, completes |-> 0,
     stopped |-> FALSE, stopMid |-> FALSE, reconf |-> FALSE,
     passEv |-> <<>>, raised |-> 0, errs |-> 0]

\* The injection history is kept for the threads nobody has interfered with.
Forget(h) ==
    [h EXCEPT !.ev0 = <<>>, !.inj = 0, !.ordered = TRUE, !.raised = 0, !.errs = 0]

Alive(t) == th[t].pc \notin {"none", "done"}
InPass(t) == th[t].pc \in {"iter", "sleep"}

\* Player.__init__
PlayerInit ==
    /\ p_events = NoList
    /\ p_playing = FALSE
    /\ p_stop_flag = FALSE
    /\ p_loop_count = 1
    /\ p_thread = 0
    /\ on_complete = TRUE
    /\ on_error = TRUE
    /\ cpc = "idle"
    /\ th = [t \in Threads |-> NoThread]
    /\ gh = [t \in Threads |-> NoHistory]
    /\ handed = [set |-> FALSE, val |-> <<>>]

\* The caller's list is empty at the beginning.
PInit ==
    /\ callerList = <<>>
    /\ PlayerInit

\* ------------------------------------------------------------ controller

\* Mutant: the list object of the caller is kept, not a copy of it.
AliasOf(list) == [alias |-> TRUE, val |-> <<>>]

\* events.copy()
CopyOf(list) == [alias |-> FALSE, val |-> list]

Reconfigured ==
    [t \in Threads |-> IF Alive(t) THEN [Forget(gh[t]) EXCEPT !.reconf = TRUE, !.n0 = 0] ELSE gh[t]]

\* Player.set_events(L), L the caller's list object, called while Idle.
set_events(L) ==
    /\ cpc = "idle" /\ ~p_playing
    /\ callerList' = L
    /\ p_events' = CopyOf(L)
    /\ handed' = [set |-> TRUE, val |-> L]
    /\ gh' = Reconfigured
    /\ UNCHANGED <<p_playing, p_stop_flag, p_loop_count, p_thread,
                   on_complete, on_error, cpc, th, rvars>>

\* Player.set_loop(count): self._loop_count = max(0, count)
set_loop(count) ==
    /\ cpc = "idle" /\ ~p_playing
    /\ p_loop_count' = Max(0, count)
    /\ gh' = Reconfigured
    /\ UNCHANGED <<callerList, p_events, p_playing, p_stop_flag, p_thread,
                   on_complete, on_error, cpc, th, handed, rvars>>

\* The caller appends to, removes from or replaces elements of its own list.
MutateCaller ==
    /\ cpc = "idle"
    /\ callerList' \in Timelines \ {callerList}
    /\ UNCHANGED <<p_events, p_playing, p_stop_flag, p_loop_count, p_thread,
                   on_complete, on_error, cpc, th, gh, handed, rvars>>

\* Mutant: start() without the test of the timeline.
start_any_timeline ==
    /\ cpc = "idle"
    /\ IF p_playing
       THEN UNCHANGED <<p_playing, p_stop_flag, p_thread, th, gh>>
       ELSE /\ \E t \in Threads :
                /\ th[t].pc = "none"
                /\ \A u \in Threads : u < t => th[u].pc # "none"
                /\ p_thread' = t
                /\ th' = [th EXCEPT ![t] = [NoThread EXCEPT !.pc = "while"]]
                /\ gh' = [gh EXCEPT ![t] = [NoHistory EXCEPT !.n0 = p_loop_count,
                                                             !.ev0 = Deref(p_events)]]
            /\ p_playing' = TRUE
            /\ p_stop_flag' = FALSE
    /\ UNCHANGED <<callerList, p_events, p_loop_count, on_complete, on_error, cpc,
                   handed, rvars>>

\* Player.start().  The new thread exists from the call on and takes its
\* first step later; nothing but the controller reads self._thread.
start ==
    /\ cpc = "idle"
    /\ IF p_playing \/ Deref(p_events) = <<>>
       THEN UNCHANGED <<p_playing, p_stop_flag, p_thread, th, gh>>
       ELSE /\ \E t \in Threads :
                /\ th[t].pc = "none"
                /\ \A u \in Threads : u < t => th[u].pc # "none"
                /\ p_thread' = t
                /\ th' = [th EXCEPT ![t] = [NoThread EXCEPT !.pc = "while"]]
                /\ gh' = [gh EXCEPT ![t] = [NoHistory EXCEPT !.n0 = p_loop_count,
                                                             !.ev0 = Deref(p_events)]]
            /\ p_playing' = TRUE
            /\ p_stop_flag' = FALSE
    /\ UNCHANGED <<callerList, p_events, p_loop_count, on_complete, on_error, cpc,
                   handed, rvars>>

\* Player.stop(), first critical section.
stop_begin ==
    /\ cpc = "idle"
    /\ IF ~p_playing
       THEN UNCHANGED <<p_stop_flag, cpc, gh>>
       ELSE /\ p_stop_flag' = TRUE
            /\ cpc' = "stopping"
            /\ gh' = [t \in Threads |->
                        IF Alive(t)
                        THEN [Forget(gh[t]) EXCEPT !.stopped = TRUE,
                                                   !.stopMid = @ \/ InPass(t)]
                        ELSE gh[t]]
    /\ UNCHANGED <<callerList, p_events, p_playing, p_loop_count, p_thread,
                   on_complete, on_error, th, handed, rvars>>

\* self._thread.join(timeout=1.0) returns when the thread has exited, or
\* with the thread alive when the second has passed: the thread blocks in
\* time.sleep alone, and a tick of the replay clock may be any length.
JoinReturns(t) == t = 0 \/ ~Alive(t) \/ th[t].pc = "sleep"

\* Mutant: the state is left Playing when the join timed out.
stop_finish_if_joined ==
    /\ cpc = "stopping"
    /\ JoinReturns(p_thread)
    /\ p_playing' = IF p_thread # 0 /\ Alive(p_thread) THEN p_playing ELSE FALSE
    /\ cpc' = "idle"
    /\ UNCHANGED <<callerList, p_events, p_stop_flag, p_loop_count, p_thread,
                   on_complete, on_error, th, gh, handed, rvars>>

\* Player.stop() after its first critical section: the join, then
\* with self._lock: self._playing = False.
stop_finish ==
    /\ cpc = "stopping"
    /\ JoinReturns(p_thread)
    /\ p_playing' = FALSE
    /\ cpc' = "idle"
    /\ UNCHANGED <<callerList, p_events, p_stop_flag, p_loop_count, p_thread,
                   on_complete, on_error, th, gh, handed, rvars>>

\* Player.is_playing()
is_playing == p_playing

\* ------------------------------------------------------------ replay thread

ctl == <<callerList, p_events, p_stop_flag, p_loop_count, p_thread,
         on_complete, on_error, cpc, handed, rvars, xvars>>

\* Variant: the while statement does not look at the flag.
run_while_deaf(t) ==
    /\ th[t].pc = "while"
    /\ th' = [th EXCEPT ![t].pc = "pass", ![t].loop = Min(@ + 1, MaxLoop)]
    /\ UNCHANGED <<ctl, p_playing, gh>>

\* _run: while not self._stop_flag: loop += 1; self._play_once()
\* The loop counter is kept up to MaxLoop: _loop_count never exceeds it.
run_while(t) ==
    /\ th[t].pc = "while"
    /\ IF p_stop_flag
       THEN th' = [th EXCEPT ![t].pc = "fin"]
       ELSE th' = [th EXCEPT ![t].pc = "pass", ![t].loop = Min(@ + 1, MaxLoop)]
    /\ UNCHANGED <<ctl, p_playing, gh>>

\* _play_once: if not self._events: return; start = time.perf_counter();
\* the for statement takes an iterator over the list object self._events.
play_once_begin(t) ==
    /\ th[t].pc = "pass"
    /\ IF Deref(p_events) = <<>>
       THEN /\ th' = [th EXCEPT ![t].pc = "after"]
            /\ UNCHANGED gh
       ELSE /\ th' = [th EXCEPT ![t].pc = "iter", ![t].iter = p_events,
                                ![t].idx = 1, ![t].elapsed = 0]
            /\ gh' = [gh EXCEPT ![t].passEv = Deref(p_events)]
    /\ UNCHANGED <<ctl, p_playing>>

\* wait = start + event.timestamp - time.perf_counter(); if wait > 0
NeedsWait(event, elapsed) == event.timestamp - elapsed > 0

\* The history after thread t has handed event e to the operating system.
Injected(t, e, raises) ==
    LET h == gh[t]
        clean == ~h.stopped /\ ~h.reconf
        next == IF h.ev0 = <<>> THEN 0 ELSE (h.inj % Len(h.ev0)) + 1
    IN  [h EXCEPT !.inj = IF clean THEN Min(@ + 1, LogCap + 1) ELSE 0,
                  !.ordered = IF clean THEN @ /\ next > 0 /\ h.ev0[next] = e ELSE TRUE,
                  !.raised = IF clean /\ raises THEN Min(@ + 1, 2) ELSE @,
                  !.errs = IF clean /\ raises /\ on_error THEN Min(@ + 1, 2) ELSE @]

\* Mutant: no try/except, an exception of the injection ends the thread.
_play_event_uncaught(t, raises) ==
    /\ gh' = [gh EXCEPT ![t] = [Injected(t, Deref(th[t].iter)[th[t].idx], raises)
                                    EXCEPT !.errs = gh[t].errs]]
    /\ th' = IF raises
             THEN [th EXCEPT ![t] = [NoThread EXCEPT !.pc = "done"]]
             ELSE [th EXCEPT ![t].pc = "iter", ![t].idx = @ + 1]

\* _play_event(event): the dispatch inside try; an exception of the
\* injection is caught and reported through on_error, if set.
_play_event(t, raises) ==
    /\ gh' = [gh EXCEPT ![t] = Injected(t, Deref(th[t].iter)[th[t].idx], raises)]
    /\ th' = [th EXCEPT ![t].pc = "iter", ![t].idx = @ + 1]

PassOver(t) ==
    /\ th' = [th EXCEPT ![t].pc = "after", ![t].iter = NoList, ![t].idx = 0,
                        ![t].elapsed = 0]
    /\ gh' = [gh EXCEPT ![t].passEv = <<>>]

\* One turn of the for loop: the next event, if self._stop_flag: break, the
\* wait, and with no wait the event is played at once.
play_once_next(t) ==
    /\ th[t].pc = "iter"
    /\ LET list == Deref(th[t].iter) IN
       IF th[t].idx > Len(list) \/ p_stop_flag
       THEN PassOver(t)
       ELSE IF NeedsWait(list[th[t].idx], th[t].elapsed)
            THEN th' = [th EXCEPT ![t].pc = "sleep"] /\ UNCHANGED gh
            ELSE \E raises \in BOOLEAN : _play_event(t, raises)
    /\ UNCHANGED <<ctl, p_playing>>

\* Variant: time.sleep returns before the fire instant has come.
sleep_end_early(t) ==
    /\ th[t].pc = "sleep"
    /\ \E raises \in BOOLEAN : _play_event(t, raises)
    /\ UNCHANGED <<ctl, p_playing>>

\* time.sleep(wait) returns once the fire instant has come, and the event is
\* played without another look at the flag.
sleep_end(t) ==
    /\ th[t].pc = "sleep"
    /\ ~NeedsWait(Deref(th[t].iter)[th[t].idx], th[t].elapsed)
    /\ \E raises \in BOOLEAN : _play_event(t, raises)
    /\ UNCHANGED <<ctl, p_playing>>

\* Mutant: one pass too many.
LoopExhaustedLate(loop, loop_count) == loop_count > 0 /\ loop > loop_count

\* if self._loop_count > 0 and loop >= self._loop_count: break
LoopExhausted(loop, loop_count) == loop_count > 0 /\ loop >= loop_count

run_after(t) ==
    /\ th[t].pc = "after"
    /\ th' = [th EXCEPT ![t].pc = IF LoopExhausted(th[t].loop, p_loop_count)
                                  THEN "fin" ELSE "while"]
    /\ UNCHANGED <<ctl, p_playing, gh>>

\* with self._lock: self._playing = False
run_fin(t) ==
    /\ th[t].pc = "fin"
    /\ p_playing' = FALSE
    /\ th' = [th EXCEPT ![t].pc = "cb"]
    /\ UNCHANGED <<ctl, gh>>

\* if self.on_complete and not self._stop_flag: self.on_complete()
run_complete(t) ==
    /\ th[t].pc = "cb"
    /\ th' = [th EXCEPT ![t].pc = "done", ![t].loop = 0]
    /\ gh' = IF on_complete /\ ~p_stop_flag
             THEN [gh EXCEPT ![t].completes = Min(@ + 1, 2)]
             ELSE gh
    /\ UNCHANGED <<ctl, p_playing>>

ThreadStep(t) ==
    \/ run_while(t)
    \/ play_once_begin(t)
    \/ play_once_next(t)
    \/ sleep_end(t)
    \/ run_after(t)
    \/ run_fin(t)
    \/ run_complete(t)

\* A tick passes for every thread inside a pass.
Tick ==
    /\ \E t \in Threads : InPass(t) /\ th[t].elapsed < MaxTs
    /\ th' = [t \in Threads |->
                IF InPass(t) THEN [th[t] EXCEPT !.elapsed = Min(@ + 1, MaxTs)] ELSE th[t]]
    /\ UNCHANGED <<ctl, p_playing, gh>>

\* The Player under a caller that calls its methods in any order.
PNext ==
    \/ \E L \in Timelines : set_events(L) /\ UNCHANGED xvars
    \/ \E count \in LoopArgs : set_loop(count) /\ UNCHANGED xvars
    \/ start /\ UNCHANGED xvars
    \/ stop_begin /\ UNCHANGED xvars
    \/ stop_finish /\ UNCHANGED xvars
    \/ \E t \in Threads : ThreadStep(t)
    \/ Tick

\* ------------------------------------------------------------ recorder

Devices == {"mouse", "kb"}

None == "none"

\* Native keys as pynput hands them over: a special key is a member of
\* pynput's Key, which has a name and no char; a character key has a char
\* and no name; a key the layout does not know has neither.
SpecialKey(name) == [char |-> None, name |-> name]
CharKey(char) == [char |-> char, name |-> None]
NoKey == [char |-> None, name |-> None]

\* The keys the application's hotkeys are bound to: F9, F10 and Escape.
\* Escape is pynput's Key.esc (the Player's table: "escape": Key.esc).
ReservedKeys == {SpecialKey("f9"), SpecialKey("f10"), SpecialKey("esc")}

NativeKeys == {CharKey("a"), NoKey} \cup ReservedKeys

\* What each listener thread delivers.
Notifications ==
    [dev : {"mouse"}, kind : {"move", "click", "scroll"}, key : {NoKey}]
    \cup [dev : {"kb"}, kind : {"press", "release"}, key : NativeKeys]

TypeOf(kind) ==
    CASE kind = "move" -> "mouse_move"
      [] kind = "click" -> "mouse_click"
      [] kind = "scroll" -> "mouse_scroll"
      [] kind = "press" -> "key_press"
      [] OTHER -> "key_release"

IdleHandler == [pc |-> "idle", kind |-> None, key |-> None, t |-> 0]

\* Variant: stop() hands out the buffer itself.
StopResultAliased(list) == [alias |-> TRUE, val |-> <<>>]

\* return self._events.copy()
StopResult(list) == [alias |-> FALSE, val |-> list]

\* The content of the list object stop() returned last.
Returned == IF returned.alias THEN r_events ELSE returned.val

RInit ==
    /\ now = 0
    /\ r_events = <<>>
    /\ r_start_time = 0
    /\ r_recording = FALSE
    /\ r_last_move = 0
    /\ listening = [d \in Devices |-> FALSE]
    /\ hd = [d \in Devices |-> IdleHandler]
    /\ rcpc = "idle"
    /\ returned = StopResult(<<>>)
    /\ notes = 0
    /\ r_lock = "free"

\* Variant: start() keeps the buffer of the session before.
rec_start_keep ==
    /\ rcpc = "idle"
    /\ IF r_recording
       THEN UNCHANGED <<r_events, r_start_time, r_last_move, r_recording, listening>>
       ELSE /\ UNCHANGED r_events
            /\ r_start_time' = now
            /\ r_last_move' = 0
            /\ r_recording' = TRUE
            /\ listening' = [d \in Devices |-> TRUE]
    /\ UNCHANGED <<now, hd, rcpc, returned, notes, r_lock, pvars>>

\* Variant: the marker begins one interval before the session.
rec_start_marker_before ==
    /\ rcpc = "idle"
    /\ IF r_recording
       THEN UNCHANGED <<r_events, r_start_time, r_last_move, r_recording, listening>>
       ELSE /\ r_events' = <<>>
            /\ r_start_time' = now
            /\ r_last_move' = 0 - INTERVAL
            /\ r_recording' = TRUE
            /\ listening' = [d \in Devices |-> TRUE]
    /\ UNCHANGED <<now, hd, rcpc, returned, notes, r_lock, pvars>>

\* Recorder.start()
rec_start ==
    /\ rcpc = "idle"
    /\ IF r_recording
       THEN UNCHANGED <<r_events, r_start_time, r_last_move, r_recording, listening>>
       ELSE /\ r_events' = <<>>
            /\ r_start_time' = now
            /\ r_last_move' = 0
            /\ r_recording' = TRUE
            /\ listening' = [d \in Devices |-> TRUE]
    /\ UNCHANGED <<now, hd, rcpc, returned, notes, r_lock, pvars>>

\* Recorder.stop(): if not self._recording: return self._events.copy();
\* self._recording = False
rec_stop_begin ==
    /\ rcpc = "idle"
    /\ IF ~r_recording
       THEN returned' = StopResult(r_events) /\ UNCHANGED <<r_recording, rcpc>>
       ELSE r_recording' = FALSE /\ rcpc' = "stop_mouse" /\ UNCHANGED returned
    /\ UNCHANGED <<now, r_events, r_start_time, r_last_move, listening, hd, notes,
                   r_lock, pvars>>

\* listener.join(timeout=0.5) returns when the listener thread is in no
\* handler, or with the handler unfinished when it is held up for half a
\* second: a handler blocks in the on_event callback alone.
ListenerJoinReturns(d) == hd[d].pc \in {"idle", "notify"}

\* self._mouse_listener.stop(); self._mouse_listener.join(timeout=0.5)
rec_stop_mouse ==
    /\ rcpc = "stop_mouse"
    /\ ListenerJoinReturns("mouse")
    /\ listening' = [listening EXCEPT !["mouse"] = FALSE]
    /\ rcpc' = "stop_kb"
    /\ UNCHANGED <<now, r_events, r_start_time, r_recording, r_last_move, hd,
                   returned, notes, r_lock, pvars>>

\* self._kb_listener.stop(); self._kb_listener.join(timeout=0.5);
\* return self._events.copy()
rec_stop_kb ==
    /\ rcpc = "stop_kb"
    /\ ListenerJoinReturns("kb")
    /\ listening' = [listening EXCEPT !["kb"] = FALSE]
    /\ returned' = StopResult(r_events)
    /\ rcpc' = "idle"
    /\ UNCHANGED <<now, r_events, r_start_time, r_recording, r_last_move, hd, notes,
                   r_lock, pvars>>

\* Recorder.event_count(): with self._lock: return len(self._events)
event_count == Len(r_events)

\* A running listener calls its handler for the next notification.
Deliver(n) ==
    /\ listening[n.dev]
    /\ hd[n.dev].pc = "idle"
    /\ notes < MaxNotes
    /\ notes' = notes + 1
    /\ hd' = [hd EXCEPT ![n.dev] = [pc |-> "check", kind |-> n.kind, key |-> n.key, t |-> 0]]
    /\ UNCHANGED <<now, r_events, r_start_time, r_recording, r_last_move, listening,
                   rcpc, returned, r_lock, pvars, xvars>>

\* Recorder._key_name(key): key.char if it has one, else key.name, else None
_key_name(key) ==
    IF key.char # None THEN key.char
    ELSE IF key.name # None THEN key.name
    ELSE None

\* if name and name not in self.EXCLUDED_HOTKEYS
Recorded(name) == name # None /\ name \notin EXCLUDED_HOTKEYS

\* if not self._recording: return; for a key, name = self._key_name(key) and
\* if name and name not in self.EXCLUDED_HOTKEYS
handler_check(d) ==
    /\ hd[d].pc = "check"
    /\ IF ~r_recording
       THEN hd' = [hd EXCEPT ![d] = IdleHandler]
       ELSE IF hd[d].kind \in {"press", "release"}
            THEN LET name == _key_name(hd[d].key) IN
                 IF Recorded(name)
                 THEN hd' = [hd EXCEPT ![d].pc = "ts", ![d].key = name]
                 ELSE hd' = [hd EXCEPT ![d] = IdleHandler]
            ELSE hd' = [hd EXCEPT ![d].pc = "ts", ![d].key = None]
    /\ UNCHANGED <<now, r_events, r_start_time, r_recording, r_last_move, listening,
                   rcpc, returned, notes, r_lock, pvars, xvars>>

\* Recorder._ts(): time.perf_counter() - self._start_time
_ts == now - r_start_time

\* t = self._ts(), taken before the lock of _add
handler_ts(d) ==
    /\ hd[d].pc = "ts"
    /\ hd' = [hd EXCEPT ![d].t = _ts,
                        ![d].pc = IF hd[d].kind = "move" THEN "throttle" ELSE "add"]
    /\ UNCHANGED <<now, r_events, r_start_time, r_recording, r_last_move, listening,
                   rcpc, returned, notes, r_lock, pvars, xvars>>

\* Variant: the marker of the last recorded move is never advanced.
MarkerAfterStale(t) == r_last_move

\* self._last_move = t
MarkerAfter(t) == t

\* _on_move: if t - self._last_move < self.INTERVAL: return; self._last_move = t
handler_throttle(d) ==
    /\ hd[d].pc = "throttle"
    /\ IF hd[d].t - r_last_move < INTERVAL
       THEN hd' = [hd EXCEPT ![d] = IdleHandler] /\ UNCHANGED r_last_move
       ELSE hd' = [hd EXCEPT ![d].pc = "add"] /\ r_last_move' = MarkerAfter(hd[d].t)
    /\ UNCHANGED <<now, r_events, r_start_time, r_recording, listening,
                   rcpc, returned, notes, r_lock, pvars, xvars>>

NewEvent(h) == [type |-> TypeOf(h.kind), timestamp |-> h.t, key |-> h.key]

\* Variant: on_event is called inside the with statement.
handler_add_locked(d) ==
    /\ hd[d].pc = "add"
    /\ r_lock = "free"
    /\ r_lock' = d
    /\ r_events' = Append(r_events, NewEvent(hd[d]))
    /\ hd' = [hd EXCEPT ![d].pc = "notify"]
    /\ UNCHANGED <<now, r_start_time, r_recording, r_last_move, listening,
                   rcpc, returned, notes, pvars, xvars>>

\* _add: with self._lock: self._events.append(event)
handler_add(d) ==
    /\ hd[d].pc = "add"
    /\ r_lock = "free"
    /\ r_lock' = d
    /\ r_events' = Append(r_events, NewEvent(hd[d]))
    /\ hd' = [hd EXCEPT ![d].pc = "unlock"]
    /\ UNCHANGED <<now, r_start_time, r_recording, r_last_move, listening,
                   rcpc, returned, notes, pvars, xvars>>

\* _add: the end of the with statement
handler_unlock(d) ==
    /\ hd[d].pc = "unlock"
    /\ r_lock' = "free"
    /\ hd' = [hd EXCEPT ![d].pc = "notify"]
    /\ UNCHANGED <<now, r_events, r_start_time, r_recording, r_last_move, listening,
                   rcpc, returned, notes, pvars, xvars>>

\* _add: if self.on_event: self.on_event(event)
handler_notify(d) ==
    /\ hd[d].pc = "notify"
    /\ hd' = [hd EXCEPT ![d] = IdleHandler]
    /\ UNCHANGED <<now, r_events, r_start_time, r_recording, r_last_move, listening,
                   rcpc, returned, notes, r_lock, pvars, xvars>>

HandlerStep(d) ==
    \/ handler_check(d)
    \/ handler_ts(d)
    \/ handler_throttle(d)
    \/ handler_add(d)
    \/ handler_unlock(d)
    \/ handler_notify(d)

\* 10 ms pass.
RTick ==
    /\ now < MaxClock
    /\ now' = now + 1
    /\ UNCHANGED <<r_events, r_start_time, r_recording, r_last_move, listening, hd,
                   rcpc, returned, notes, r_lock, pvars, xvars>>

RNext ==
    \/ rec_start /\ UNCHANGED xvars
    \/ rec_stop_begin /\ UNCHANGED xvars
    \/ rec_stop_mouse /\ UNCHANGED xvars
    \/ rec_stop_kb /\ UNCHANGED xvars
    \/ \E n \in Notifications : Deliver(n)
    \/ \E d \in Devices : HandlerStep(d)
    \/ RTick

\* ------------------------------------------------------------ codec

\* Optional[T]: None, or a value.
Absent == <<>>
Some(v) == <<v>>

\* EventType, each member by its value
EventTypeValues == {"mouse_move", "mouse_click", "mouse_scroll", "key_press", "key_release"}

\* for k in ["x", "y", "button", "key", "pressed", "scroll_dx", "scroll_dy"]
OptionalFields == {"x", "y", "button", "key", "pressed", "scroll_dx", "scroll_dy"}

\* A JSON value is a pair of its JSON type and its content; an object's
\* content is a function on its keys, a list's a sequence.
JNum(n) == <<"num", n>>
JStr(s) == <<"str", s>>
JBool(b) == <<"bool", b>>
JNull == <<"null", 0>>
JList(seq) == <<"list", seq>>
JObj(f) == <<"obj", f>>

\* json.dump of a field's value: x, y and the scroll amounts are numbers,
\* button and key strings, pressed a boolean.
JsonOf(k, v) ==
    IF k \in {"button", "key"} THEN JStr(v)
    ELSE IF k = "pressed" THEN JBool(v)
    ELSE JNum(v)

\* json.load: null is None, anything else its Python value.
PyOf(j) == IF j[1] = "null" THEN Absent ELSE Some(j[2])

\* Variant: to_dict emits the two required fields only.
EmittedNever(v) == FALSE

\* if v is not None: d[k] = v
Emitted(v) == v # Absent

\* Event.to_dict
Event_to_dict(e) ==
    JObj([k \in {"type", "timestamp"} \cup {f \in OptionalFields : Emitted(e[f])} |->
            IF k = "type" THEN JStr(e.type)
            ELSE IF k = "timestamp" THEN JNum(e.timestamp)
            ELSE JsonOf(k, e[k][1])])

Ok(v) == [ok |-> TRUE, val |-> v, index |-> 0 - 1]
Raise(i) == [ok |-> FALSE, val |-> <<>>, index |-> i]

\* d.get(k)
Get(f, k) == IF k \in DOMAIN f THEN PyOf(f[k]) ELSE Absent

\* isinstance(d["timestamp"], (int, float)): bool is a subclass of int
IsNumber(j) == j[1] \in {"num", "bool"}

\* float(d["timestamp"])
Float(j) == IF j[1] = "bool" THEN (IF j[2] THEN 1 ELSE 0) ELSE j[2]

\* Event.from_dict: the exception, or the Event.  A d that is no dict raises
\* at the test of "type" or at d["type"].
Event_from_dict(d) ==
    IF d[1] # "obj" THEN Raise(0)
    ELSE LET f == d[2] IN
         IF "type" \notin DOMAIN f \/ "timestamp" \notin DOMAIN f THEN Raise(0)
         ELSE IF f["type"][1] # "str" \/ f["type"][2] \notin EventTypeValues THEN Raise(0)
         ELSE IF ~IsNumber(f["timestamp"]) THEN Raise(0)
         ELSE Ok([type |-> f["type"][2], timestamp |-> Float(f["timestamp"]),
                  x |-> Get(f, "x"), y |-> Get(f, "y"),
                  button |-> Get(f, "button"), key |-> Get(f, "key"),
                  pressed |-> Get(f, "pressed"),
                  scroll_dx |-> Get(f, "scroll_dx"), scroll_dy |-> Get(f, "scroll_dy")])

\* Macro.to_dict
Macro_to_dict(m) ==
    JObj([k \in {"name", "created_at", "events"} |->
            IF k = "name" THEN JStr(m.name)
            ELSE IF k = "created_at" THEN JStr(m.created_at)
            ELSE JList([i \in 1..Len(m.events) |-> Event_to_dict(m.events[i])])])

\* The 0-based index of the first element of the list that Event.from_dict
\* rejects, or -1.
FirstBad(list) ==
    LET bad == {i \in 1..Len(list) : ~Event_from_dict(list[i]).ok}
    IN  IF bad = {} THEN 0 - 1
        ELSE (CHOOSE i \in bad : \A j \in bad : i <= j) - 1

\* Macro.from_dict: ValueError for data that is no dict, has no "events" or
\* has events that are no list; ValueError naming the index i of the first
\* event that fails; else the Macro.
Macro_from_dict(d) ==
    IF d[1] # "obj" THEN Raise(0 - 1)
    ELSE LET f == d[2] IN
         IF "events" \notin DOMAIN f THEN Raise(0 - 1)
         ELSE IF f["events"][1] # "list" THEN Raise(0 - 1)
         ELSE LET list == f["events"][2] IN
              IF FirstBad(list) >= 0 THEN Raise(FirstBad(list))
              ELSE Ok([name |-> IF "name" \in DOMAIN f THEN f["name"][2] ELSE "Untitled",
                       created_at |-> IF "created_at" \in DOMAIN f
                                      THEN f["created_at"][2] ELSE "",
                       events |-> [i \in 1..Len(list) |-> Event_from_dict(list[i]).val]])

\* ------------------------------------------------------------ key names

\* The names of the table "special" of Player._to_key.
SpecialNames ==
    { "space", "enter", "tab", "backspace", "delete", "escape", "shift", "shift_l",
      "shift_r", "ctrl", "ctrl_l", "ctrl_r", "alt", "alt_l", "alt_r", "alt_gr",
      "caps_lock", "up", "down", "left", "right", "home", "end", "page_up",
      "page_down", "insert", "f1", "f2", "f3", "f4", "f5", "f6", "f7", "f8", "f9",
      "f10", "f11", "f12" }

\* special: each name with the member of pynput's Key it stands for, which is
\* the member of that name but for "escape": Key.esc.
special == [n \in SpecialNames |-> IF n = "escape" THEN SpecialKey("esc") ELSE SpecialKey(n)]

\* The names of one character, and those of them that are alphanumeric
\* (str.isalnum) or in Player.VALID_SPECIAL_CHARS.
SingleChars == {"a", "A", "7", "!", " "}
Alnum == {"a", "A", "7"}
VALID_SPECIAL_CHARS == {"!"}

\* Names a macro file may hold that no key has.
OtherNames == {"banana_key", "F1", "Escape", "SPACE"}

\* str.lower
Lower(name) ==
    CASE name = "A" -> "a"
      [] name = "F1" -> "f1"
      [] name = "Escape" -> "escape"
      [] name = "SPACE" -> "space"
      [] OTHER -> name

\* Player._to_key(name): the member of Key, the character itself as a
\* character key, or None
_to_key(name) ==
    IF name = None THEN NoKey
    ELSE LET name_lower == Lower(name) IN
         IF name_lower \in DOMAIN special THEN special[name_lower]
         ELSE IF name_lower \in SingleChars
                 /\ (name_lower \in Alnum \/ name_lower \in VALID_SPECIAL_CHARS)
              THEN CharKey(name_lower)
              ELSE NoKey

\* The keys of a keyboard: the members of Key the table knows, one it does
\* not know, character keys, and a key with neither char nor name.
Keyboard ==
    {special[n] : n \in SpecialNames} \cup {SpecialKey("cmd")}
    \cup {CharKey(c) : c \in SingleChars \ {" "}} \cup {NoKey}

KInit ==
    /\ k_native = NoKey
    /\ k_name = None
    /\ k_key = NoKey
    /\ k_pc = "idle"

\* A key is pressed during a recording, or a macro file holds a key name.
KeyInit ==
    /\ k_key = NoKey
    /\ \/ k_pc = "pressed" /\ k_native \in Keyboard /\ k_name = None
       \/ k_pc = "loaded" /\ k_native = NoKey
                          /\ k_name \in OtherNames \cup SpecialNames \cup SingleChars

\* _on_press: name = self._key_name(key)
key_record ==
    /\ k_pc = "pressed"
    /\ k_name' = _key_name(k_native)
    /\ k_pc' = "recorded"
    /\ UNCHANGED <<k_native, k_key, pvars, rvars, avars, dvars>>

\* _play_key_press: key = self._to_key(e.key)
key_replay ==
    /\ k_pc \in {"recorded", "loaded"}
    /\ k_key' = _to_key(k_name)
    /\ k_pc' = IF k_pc = "recorded" THEN "replayed" ELSE "played"
    /\ UNCHANGED <<k_native, k_name, pvars, rvars, avars, dvars>>

KeyNext == key_record \/ key_replay

\* ------------------------------------------------------------ application

STATE_IDLE == 0
STATE_COUNTDOWN == 1
STATE_RECORDING == 2
STATE_PLAYING == 3
COUNTDOWN_SECONDS == 3

NoFile == <<"none", 0>>
NoToast == <<"none", 0>>

\* An Event with no optional field.
BareEvent(type, timestamp) ==
    [type |-> type, timestamp |-> timestamp, x |-> Absent, y |-> Absent,
     button |-> Absent, key |-> Absent, pressed |-> Absent,
     scroll_dx |-> Absent, scroll_dy |-> Absent]

\* Events as the Recorder builds them, at time t.
ClickAt(t) ==
    [BareEvent("mouse_click", t) EXCEPT !.x = Some(0), !.y = Some(5),
                                        !.button = Some("left"), !.pressed = Some(FALSE)]
KeyAt(t) == [BareEvent("key_press", t) EXCEPT !.key = Some("a"), !.pressed = Some(TRUE)]
ScrollAt(t) ==
    [BareEvent("mouse_scroll", t) EXCEPT !.x = Some(0), !.y = Some(0),
                                         !.scroll_dx = Some(0), !.scroll_dy = Some(0 - 1)]

\* An Event with every optional field, as Event(...) may be called.
FullAt(t) ==
    [type |-> "key_release", timestamp |-> t, x |-> Some(1), y |-> Some(0),
     button |-> Some("right"), key |-> Some("f1"), pressed |-> Some(FALSE),
     scroll_dx |-> Some(2), scroll_dy |-> Some(0)]

CodecEvents == <<ClickAt(0), KeyAt(1), ScrollAt(1), BareEvent("mouse_move", 1), FullAt(2)>>

\* The lists of up to MaxLen events that follow one another in CodecEvents,
\* taken as a ring.
CodecLists ==
    {<<>>} \cup
    { [i \in 1..n |-> CodecEvents[((k + i - 2) % Len(CodecEvents)) + 1]] :
        k \in 1..Len(CodecEvents), n \in 1..MaxLen }

\* The macros a session of recording may have left in the application.
Macros == [name : {"New Macro"}, created_at : {"2024"}, events : CodecLists]

\* App.macro: the name and created_at in a_meta, the events in callerList,
\* the list object the Player is handed.
Macro == [name |-> a_meta.name, created_at |-> a_meta.created_at, events |-> callerList]

\* A JSON object as f, with key k set to j, and without key k.
With(f, k, j) == [x \in DOMAIN f \cup {k} |-> IF x = k THEN j ELSE f[x]]
Without(f, k) == [x \in DOMAIN f \ {k} |-> f[x]]

GoodEvent == Event_to_dict(KeyAt(1))[2]

\* Elements of "events" that a file may hold and a Macro never produces.
BadEvents ==
    { JObj(Without(GoodEvent, "type")), JObj(Without(GoodEvent, "timestamp")),
      JObj(With(GoodEvent, "type", JStr("mouse_drag"))),
      JObj(With(GoodEvent, "type", JNum(1))),
      JObj(With(GoodEvent, "timestamp", JStr("1.5"))),
      JObj(With(GoodEvent, "timestamp", JNull)),
      JObj(With(GoodEvent, "timestamp", JBool(TRUE))),
      JNum(1), JStr("type timestamp") }

\* Elements that are well-formed though no Macro produces them: a null
\* field, an unknown field.
OddEvents ==
    { JObj(With(GoodEvent, "x", JNull)), JObj(With(GoodEvent, "colour", JStr("red"))) }

GoodMacro == Macro_to_dict([name |-> "m", created_at |-> "2024", events |-> <<ClickAt(0)>>])[2]

\* Lists of up to MaxLen elements: well-formed events, then an element that
\* is malformed or odd, then nothing or one more element.
FileLists ==
    { [i \in 1..n |-> JObj(GoodEvent)] \o <<e>> \o rest :
        n \in 0..(MaxLen - 1), e \in BadEvents \cup OddEvents,
        rest \in {<<>>, <<JObj(GoodEvent)>>, <<JObj(Without(GoodEvent, "timestamp"))>>} }

\* What a file chosen in _open may hold, besides what _save wrote.
Files ==
    { JList(<<>>), JObj(Without(GoodMacro, "events")),
      JObj(With(GoodMacro, "events", JNum(0))),
      JObj(Without(Without(GoodMacro, "name"), "created_at")) }
    \cup { JObj(With(GoodMacro, "events", JList(q))) : q \in FileLists }

\* App.__init__, but for the macro
AppInit ==
    /\ a_state = STATE_IDLE
    /\ a_pending = None
    /\ a_countdown = 0
    /\ a_timer = FALSE
    /\ a_seen = 0
    /\ apc = "idle"
    /\ a_file = NoFile
    /\ a_toast = NoToast

\* self.macro = Macro(); created_at is the time of the construction
AInit ==
    /\ a_meta = [name |-> "New Macro", created_at |-> "2024"]
    /\ AppInit

\* The Player, the Recorder and the keys as the application leaves them.
aframe == <<kvars, dvars, rvars, p_events, p_playing, p_stop_flag, p_loop_count, p_thread,
            on_complete, on_error, cpc, th, gh, handed>>

\* App._save: json.dump(self.macro.to_dict(), f)
app_save ==
    /\ apc = "idle"
    /\ IF callerList = <<>>
       THEN a_toast' = <<"No data available", 0>> /\ UNCHANGED a_file
       ELSE a_file' = Macro_to_dict(Macro) /\ a_toast' = <<"Saved", 0>>
    /\ UNCHANGED <<a_state, a_pending, a_countdown, a_timer, a_seen, apc, a_meta,
                   callerList, aframe>>

\* App._open on a file that holds data: self.macro = Macro.from_dict(data),
\* the ValueError caught and shown with its message.
app_open(data) ==
    /\ apc = "idle"
    /\ LET r == Macro_from_dict(data) IN
       IF r.ok
       THEN /\ a_meta' = [name |-> r.val.name, created_at |-> r.val.created_at]
            /\ callerList' = r.val.events
            /\ a_toast' = <<"Loaded", Len(r.val.events)>>
       ELSE /\ a_toast' = <<"Data format error", r.index>>
            /\ UNCHANGED <<a_meta, callerList>>
    /\ UNCHANGED <<a_state, a_pending, a_countdown, a_timer, a_seen, apc, a_file, aframe>>

\* _open on the file that _save wrote.
app_reopen ==
    /\ a_file # NoFile
    /\ app_open(a_file)

\* The completion callbacks posted with self.after(0, self._on_complete)
\* that the main loop has not run yet.
Posted == gh[1].completes + gh[2].completes
Pending == Posted - a_seen

\* _start_countdown(action), with its first call of _do_countdown
\* (COUNTDOWN_SECONDS > 0)
_start_countdown(action) ==
    /\ a_state' = STATE_COUNTDOWN
    /\ a_pending' = action
    /\ a_countdown' = COUNTDOWN_SECONDS - 1
    /\ a_timer' = TRUE
    /\ UNCHANGED <<a_seen, apc, a_meta, a_file, a_toast, pvars, rvars, kvars, dvars>>

\* _stop_rec up to the first join of Recorder.stop(); the main thread is
\* inside the handler until stop() has returned.
_stop_rec ==
    /\ rec_stop_begin
    /\ apc' = "stop_rec"
    /\ UNCHANGED <<a_state, a_pending, a_countdown, a_timer, a_seen, a_meta, a_file,
                   a_toast, kvars, dvars>>

\* _stop_play up to the join of Player.stop()
_stop_play ==
    /\ stop_begin
    /\ apc' = "stop_play"
    /\ UNCHANGED <<a_state, a_pending, a_countdown, a_timer, a_seen, a_meta, a_file,
                   a_toast, kvars, dvars>>

\* App._on_rec: the F9 hotkey or the Record button
app_on_rec ==
    /\ apc = "idle"
    /\ a_state \in {STATE_IDLE, STATE_RECORDING}
    /\ IF a_state = STATE_IDLE THEN _start_countdown("record") ELSE _stop_rec

\* App._on_play: the F10 hotkey or the Play button
app_on_play ==
    /\ apc = "idle"
    /\ \/ a_state = STATE_IDLE /\ callerList # <<>> /\ _start_countdown("play")
       \/ a_state = STATE_PLAYING /\ _stop_play

\* _cancel_countdown: self.after_cancel(self._countdown_id)
_cancel_countdown ==
    /\ a_timer' = FALSE
    /\ a_state' = STATE_IDLE
    /\ UNCHANGED <<a_pending, a_countdown, a_seen, apc, a_meta, a_file, a_toast,
                   pvars, rvars, kvars, dvars>>

\* App._on_stop: the Escape hotkey or the Stop button
app_on_stop ==
    /\ apc = "idle"
    /\ \/ a_state = STATE_COUNTDOWN /\ _cancel_countdown
       \/ a_state = STATE_RECORDING /\ _stop_rec
       \/ a_state = STATE_PLAYING /\ _stop_play

\* _start_rec: self._state = STATE_RECORDING; self.recorder.start()
_start_rec ==
    /\ a_state' = STATE_RECORDING
    /\ rec_start
    /\ UNCHANGED apc

\* _start_play up to its call of set_events
_start_play ==
    /\ a_state' = STATE_PLAYING
    /\ apc' = "set_events"
    /\ UNCHANGED <<pvars, rvars>>

\* _do_countdown when its timer fires, a second after it was scheduled.
\* The main loop runs the callbacks posted with after(0, ...) before.
app_do_countdown ==
    /\ apc = "idle" /\ a_timer /\ Pending = 0
    /\ IF a_countdown > 0
       THEN /\ a_countdown' = a_countdown - 1
            /\ UNCHANGED <<a_state, a_timer, apc, pvars, rvars>>
       ELSE /\ a_timer' = FALSE
            /\ UNCHANGED a_countdown
            /\ IF a_pending = "record" THEN _start_rec ELSE _start_play
    /\ UNCHANGED <<a_pending, a_seen, a_meta, a_file, a_toast, kvars, dvars>>

\* loop = int(self.loop_var.get()), negative values taken as 0 and values
\* above 1000 as 1000
LoopOf(entry) == IF entry < 0 THEN 0 ELSE IF entry > 1000 THEN 1000 ELSE entry

\* _start_play: self.player.set_events(self.macro.events)
app_set_events ==
    /\ apc = "set_events"
    /\ set_events(callerList)
    /\ apc' = "set_loop"
    /\ UNCHANGED <<a_state, a_pending, a_countdown, a_timer, a_seen, a_meta, a_file,
                   a_toast, kvars, dvars>>

\* _start_play: self.player.set_loop(loop)
app_set_loop(entry) ==
    /\ apc = "set_loop"
    /\ set_loop(LoopOf(entry))
    /\ apc' = "start"
    /\ UNCHANGED <<a_state, a_pending, a_countdown, a_timer, a_seen, a_meta, a_file,
                   a_toast, kvars, dvars>>

\* _start_play: self.player.start()
app_start ==
    /\ apc = "start"
    /\ start
    /\ apc' = "idle"
    /\ UNCHANGED <<a_state, a_pending, a_countdown, a_timer, a_seen, a_meta, a_file,
                   a_toast, kvars, dvars>>

\* _stop_play: the join inside Player.stop() and its last critical section
app_stop_play_join ==
    /\ apc = "stop_play"
    /\ stop_finish
    /\ UNCHANGED xvars

\* _stop_play after self.player.stop(): self._state = STATE_IDLE
app_stop_play_end ==
    /\ apc = "stop_play" /\ cpc = "idle"
    /\ a_state' = STATE_IDLE
    /\ apc' = "idle"
    /\ UNCHANGED <<a_pending, a_countdown, a_timer, a_seen, a_meta, a_file, a_toast,
                   pvars, rvars, kvars, dvars>>

\* _stop_rec: the joins inside Recorder.stop()
app_stop_rec_join ==
    /\ apc = "stop_rec"
    /\ rec_stop_mouse \/ rec_stop_kb
    /\ UNCHANGED xvars

\* _stop_rec after events = self.recorder.stop(): self.macro.events = events;
\* self._state = STATE_IDLE
app_stop_rec_end ==
    /\ apc = "stop_rec" /\ rcpc = "idle"
    /\ callerList' = Returned
    /\ a_state' = STATE_IDLE
    /\ apc' = "idle"
    /\ UNCHANGED <<a_pending, a_countdown, a_timer, a_seen, a_meta, a_file, a_toast,
                   aframe>>

\* App._on_complete, run by the main loop for a callback the replay thread
\* posted: self._state = STATE_IDLE
app_on_complete ==
    /\ apc = "idle" /\ Pending > 0
    /\ a_seen' = a_seen + 1
    /\ a_state' = STATE_IDLE
    /\ UNCHANGED <<a_pending, a_countdown, a_timer, apc, a_meta, a_file, a_toast,
                   pvars, rvars, kvars, dvars>>

\* ------------------------------------------------------------ devices

\* A call on pynput's mouse or keyboard controller.
Call(op, button, x, y, key) == [op |-> op, button |-> button, x |-> x, y |-> y, key |-> key]

\* btn = MouseButton.left if e.button == "left" else MouseButton.right
\*       if e.button == "right" else MouseButton.middle
MouseButton(button) ==
    IF button = "left" THEN "left" ELSE IF button = "right" THEN "right" ELSE "middle"

\* The truth value of an Optional[str] and of an Optional[int]
TruthyStr(v) == v # Absent /\ v # Some("")
TruthyInt(v) == v # Absent /\ v # Some(0)

\* _play_mouse_move
_play_mouse_move(e) ==
    IF e.x # Absent /\ e.y # Absent
    THEN <<Call("position", None, e.x[1], e.y[1], NoKey)>>
    ELSE <<>>

\* _play_mouse_click
_play_mouse_click(e) ==
    IF TruthyStr(e.button) /\ e.pressed # Absent /\ e.x # Absent /\ e.y # Absent
    THEN <<Call(IF e.pressed[1] THEN "press" ELSE "release",
                MouseButton(e.button[1]), 0, 0, NoKey)>>
    ELSE <<>>

\* _play_mouse_scroll: the vertical amount first
_play_mouse_scroll(e) ==
    IF e.x # Absent /\ e.y # Absent
    THEN (IF TruthyInt(e.scroll_dy) THEN <<Call("scroll", None, 0, e.scroll_dy[1], NoKey)>>
          ELSE <<>>)
         \o (IF TruthyInt(e.scroll_dx) THEN <<Call("scroll", None, e.scroll_dx[1], 0, NoKey)>>
             ELSE <<>>)
    ELSE <<>>

\* _play_key_press and _play_key_release
_play_key(op, e) ==
    IF e.key # Absent /\ _to_key(e.key[1]) # NoKey
    THEN <<Call(op, None, 0, 0, _to_key(e.key[1]))>>
    ELSE <<>>

\* The dispatch of _play_event on e.type
Dispatch(e) ==
    CASE e.type = "mouse_move" -> _play_mouse_move(e)
      [] e.type = "mouse_click" -> _play_mouse_click(e)
      [] e.type = "mouse_scroll" -> _play_mouse_scroll(e)
      [] e.type = "key_press" -> _play_key("key_press", e)
      [] e.type = "key_release" -> _play_key("key_release", e)

\* The events a timeline may hold, recorded or loaded from a file: fields
\* present or absent whatever the type.
ClickEvents ==
    { [BareEvent("mouse_click", 0) EXCEPT !.x = x, !.y = y, !.button = b, !.pressed = p] :
        x \in {Absent, Some(0)}, y \in {Absent, Some(5)},
        b \in {Absent, Some("left"), Some("right"), Some("middle"), Some("x1"), Some("")},
        p \in {Absent, Some(TRUE), Some(FALSE)} }

DeviceEvents ==
    ClickEvents
    \cup { [BareEvent("mouse_move", 0) EXCEPT !.x = x, !.y = y] :
             x \in {Absent, Some(0)}, y \in {Absent, Some(5)} }
    \cup { [BareEvent("mouse_scroll", 0) EXCEPT !.x = x, !.y = Some(0),
                                                 !.scroll_dx = dx, !.scroll_dy = dy] :
             x \in {Absent, Some(0)}, dx \in {Absent, Some(0), Some(2)},
             dy \in {Absent, Some(0), Some(0 - 1)} }
    \cup { [BareEvent(type, 0) EXCEPT !.key = k] :
             type \in {"key_press", "key_release"},
             k \in {Absent, Some("a"), Some("f1"), Some("banana_key")} }

DInit ==
    /\ d_event = BareEvent("mouse_move", 0)
    /\ d_log = <<>>
    /\ d_pc = "idle"

\* The replay thread is about to play an event of the timeline.
DeviceInit ==
    /\ d_event \in DeviceEvents
    /\ d_log = <<>>
    /\ d_pc = "event"

\* Player._play_event(e), when the controllers raise nothing
play_dispatch ==
    /\ d_pc = "event"
    /\ d_log' = Dispatch(d_event)
    /\ d_pc' = "played"
    /\ UNCHANGED <<d_event, pvars, rvars, avars, kvars>>

DeviceStart == PInit /\ RInit /\ AInit /\ KInit /\ DeviceInit

DeviceSpec == DeviceStart /\ [][play_dispatch]_vars

Init == PInit /\ RInit /\ AInit /\ KInit /\ DInit

\* Saving and loading: the application holds any macro at the beginning.
CodecInit ==
    /\ PlayerInit /\ RInit /\ AppInit /\ KInit /\ DInit
    /\ \E m \in Macros :
          /\ callerList = m.events
          /\ a_meta = [name |-> m.name, created_at |-> m.created_at]

CodecNext ==
    \/ app_save
    \/ app_reopen
    \/ \E data \in Files : app_open(data)

CodecSpec == CodecInit /\ [][CodecNext]_vars

\* One key pressed or one key name loaded, in the application as constructed.
KeyStart == PInit /\ RInit /\ AInit /\ KeyInit /\ DInit

KeySpec == KeyStart /\ [][KeyNext]_vars

\* A file with a macro of two events a tick apart, and one with a macro of
\* no event.
AppFiles ==
    { Macro_to_dict([name |-> "m", created_at |-> "2024", events |-> q]) :
        q \in {<<ClickAt(0), KeyAt(1)>>, <<>>} }

\* The application: the user's triggers, the timers and the callbacks of
\* the main loop, and the replay threads.
AppNext ==
    \/ app_on_rec
    \/ app_on_play
    \/ app_on_stop
    \/ app_do_countdown
    \/ app_set_events
    \/ \E entry \in LoopArgs : app_set_loop(entry)
    \/ app_start
    \/ app_stop_play_join
    \/ app_stop_play_end
    \/ app_stop_rec_join
    \/ app_stop_rec_end
    \/ app_on_complete
    \/ \E data \in AppFiles : app_open(data)
    \/ \E t \in Threads : ThreadStep(t)
    \/ Tick

AppSpec == Init /\ [][AppNext]_vars

\* One session with a stream of moves, clicks and presses of a character key.
MoveNotifications ==
    {n \in Notifications :
        n.kind \in {"move", "click"} \/ (n.kind = "press" /\ n.key = CharKey("a"))}

ThrottleNext ==
    \/ rec_start /\ UNCHANGED xvars
    \/ \E n \in MoveNotifications : Deliver(n)
    \/ \E d \in Devices : HandlerStep(d)
    \/ RTick

ThrottleSpec == Init /\ [][ThrottleNext]_vars

\* Sessions one after the other, with moves and presses of two keys.
SessionNotifications ==
    {n \in Notifications :
        n.kind = "move" \/ (n.kind = "press" /\ n.key \in {CharKey("a"), SpecialKey("f9")})}

SessionNext ==
    \/ rec_start /\ UNCHANGED xvars
    \/ rec_stop_begin /\ UNCHANGED xvars
    \/ rec_stop_mouse /\ UNCHANGED xvars
    \/ rec_stop_kb /\ UNCHANGED xvars
    \/ \E n \in SessionNotifications : Deliver(n)
    \/ \E d \in Devices : HandlerStep(d)
    \/ RTick

SessionSpec == Init /\ [][SessionNext]_vars

RecorderSpec == Init /\ [][RNext]_vars

PlayerSpec == Init /\ [][PNext]_vars

PlayerFair ==
    /\ PlayerSpec
    /\ \A t \in Threads : WF_vars(ThreadStep(t))
    /\ WF_vars(Tick)
    /\ WF_vars(stop_finish /\ UNCHANGED xvars)

\* The Player when stop() is never called.
NoStopNext ==
    \/ \E L \in Timelines : set_events(L) /\ UNCHANGED xvars
    \/ \E count \in LoopArgs : set_loop(count) /\ UNCHANGED xvars
    \/ start /\ UNCHANGED xvars
    \/ \E t \in Threads : ThreadStep(t)
    \/ Tick

NoStopSpec == Init /\ [][NoStopNext]_vars

\* Every thread is scheduled again and again, and time passes.
NoStopFair ==
    /\ NoStopSpec
    /\ \A t \in Threads : WF_vars(ThreadStep(t))
    /\ WF_vars(Tick)

\* The caller changes its list L at any time, during passes too.
AliasNext ==
    \/ NoStopNext
    \/ MutateCaller /\ UNCHANGED xvars

AliasSpec == Init /\ [][AliasNext]_vars

\* The same with stop().
PlayerMutNext ==
    \/ PNext
    \/ MutateCaller /\ UNCHANGED xvars

PlayerMutSpec == Init /\ [][PlayerMutNext]_vars

\* ------------------------------------------------------------ properties

\* Nobody has interfered with thread t: launched with a loop count >= 1, and
\* since then no stop() has set the flag and nothing was reconfigured.
Clean(t) ==
    /\ th[t].pc # "none"
    /\ ~gh[t].stopped /\ ~gh[t].reconf
    /\ gh[t].n0 >= 1

Total(t) == gh[t].n0 * Len(gh[t].ev0)

C1_Safe ==
    \A t \in Threads : Clean(t) =>
        /\ gh[t].ordered
        /\ gh[t].inj <= Total(t)
        /\ th[t].pc \in {"fin", "cb", "done"} => gh[t].inj = Total(t)
        /\ gh[t].completes = IF th[t].pc = "done" THEN 1 ELSE 0

\* C1: a thread launched on a non-empty timeline with loop count n >= 1 and
\* left alone injects the timeline n times over, pass after pass, never
\* more, then exits, and on_complete has fired exactly once, after the last
\* pass.
C1_ExactPasses ==
    /\ []C1_Safe
    /\ \A t \in Threads : Clean(t) ~> (th[t].pc = "done" \/ ~Clean(t))

C1_Witness ==
    \E t \in Threads :
        /\ Clean(t) /\ th[t].pc = "done"
        /\ gh[t].n0 >= 2 /\ Len(gh[t].ev0) >= 2
        /\ gh[t].inj = Total(t) /\ gh[t].completes = 1

\* C2: a thread during a pass of which stop() has set the flag never calls
\* on_complete.
C2_StoppedNeverCompletes ==
    \A t \in Threads : gh[t].stopMid => gh[t].completes = 0

\* C3: a thread launched with loop count 0 does not leave its loop and does
\* not call on_complete unless stop() is called, and once stop() has set the
\* flag it exits.
C3_InfiniteUntilStop ==
    /\ [](\A t \in Threads :
            (th[t].pc # "none" /\ gh[t].n0 = 0 /\ ~gh[t].reconf /\ ~gh[t].stopped)
                => (th[t].pc \notin {"fin", "cb", "done"} /\ gh[t].completes = 0))
    /\ \A t \in Threads :
            (Alive(t) /\ gh[t].n0 = 0 /\ ~gh[t].reconf /\ gh[t].stopped)
                ~> (th[t].pc = "done" \/ gh[t].reconf)

\* C4: stop() while Idle changes neither the flag nor the state; while
\* Playing it sets the flag; and when it returns, is_playing() is false,
\* the thread having exited or not.
C4_Stop ==
    [][ /\ stop_begin =>
              IF ~p_playing
              THEN UNCHANGED <<p_playing, p_stop_flag, th>>
              ELSE p_stop_flag' /\ UNCHANGED <<p_playing, th>>
        /\ stop_finish => ~is_playing' /\ cpc' = "idle"
      ]_vars

\* stop() has returned after its join timed out.
C4_Witness ==
    /\ cpc = "idle" /\ ~is_playing /\ p_stop_flag
    /\ p_thread # 0 /\ Alive(p_thread) /\ gh[p_thread].stopped

\* C5: start() while Playing or with an empty timeline changes nothing;
\* otherwise the state is Playing, the flag is clear, and exactly one new
\* thread exists, which has not run yet, the caller having returned.
C5_Start ==
    [][ start =>
          IF p_playing \/ Deref(p_events) = <<>>
          THEN UNCHANGED <<p_playing, p_stop_flag, p_thread, th>>
          ELSE /\ p_playing' /\ ~p_stop_flag' /\ cpc' = "idle"
               /\ Cardinality({t \in Threads : th[t].pc = "none" /\ th'[t].pc = "while"}) = 1
               /\ \A t \in Threads : th[t].pc # "none" => th'[t] = th[t]
               /\ p_thread' \in Threads /\ th[p_thread'].pc = "none"
      ]_vars

\* start() has launched a second thread next to one that outlived stop().
C5_Witness ==
    \E t, u \in Threads :
        /\ t # u /\ p_thread = t /\ th[t].pc = "while" /\ th[t].loop = 0
        /\ p_playing /\ ~p_stop_flag
        /\ Alive(u) /\ gh[u].stopped

\* C6: a thread that waits for an event's fire instant while the flag is
\* set does not go on to play that event.
C6_CancelledWaitSkipsEvent ==
    [][ \A t \in Threads :
            (th[t].pc = "sleep" /\ p_stop_flag) => th'[t].idx <= th[t].idx ]_vars

\* C7: every injection that raises is reported by one on_error call, and
\* the thread goes on as if none had raised: its place in the timeline is
\* the number of events it has injected, and it ends after n0 passes with
\* one on_complete call.
C7_ErrorsCaught ==
    \A t \in Threads :
        /\ gh[t].errs = gh[t].raised
        /\ (Clean(t) /\ gh[t].raised > 0) =>
              /\ InPass(t) => gh[t].inj = (th[t].loop - 1) * Len(gh[t].ev0) + th[t].idx - 1
              /\ th[t].pc = "done" => (gh[t].inj = Total(t) /\ gh[t].completes = 1)

\* An injection raised, later ones of the same thread did not, and the
\* thread has completed.
C7_Witness ==
    \E t \in Threads :
        /\ Clean(t) /\ th[t].pc = "done"
        /\ gh[t].raised = 1 /\ gh[t].errs = 1
        /\ gh[t].inj >= 2 /\ gh[t].completes = 1

\* C8: the Player's list is the content L had at set_events(L), and the
\* list a pass iterates over is the content the Player's list had when the
\* pass began, whatever the caller does to L afterwards.
C8_PrivateCopy ==
    /\ handed.set => Deref(p_events) = handed.val
    /\ \A t \in Threads : InPass(t) => Deref(th[t].iter) = gh[t].passEv

\* The caller has changed L during a pass.
C8_Witness ==
    /\ handed.set /\ callerList # handed.val
    /\ \E t \in Threads : InPass(t) /\ th[t].idx >= 2 /\ gh[t].passEv # callerList

\* C9: the Recorder's buffer is ordered by timestamp.
C9_BufferOrdered ==
    \A i \in 1..(Len(r_events) - 1) : r_events[i].timestamp <= r_events[i + 1].timestamp

\* C10: no event is appended to the buffer while the Recorder is Idle.
C10_AppendOnlyWhileActive ==
    [][ Len(r_events') > Len(r_events) => r_recording ]_vars

\* C11: every step that writes the Recorder's buffer or its Active/Idle
\* flag is taken with the Recorder's mutex held.
C11_WritesUnderLock ==
    [][ (r_events' # r_events \/ r_recording' # r_recording) => r_lock' # "free" ]_vars

MoveStamps == {r_events[i].timestamp : i \in {j \in 1..Len(r_events) : r_events[j].type = "mouse_move"}}

\* C12: two MouseMove events of the buffer are at least INTERVAL apart, so
\* the moves of a stream that lasts D are at most D / INTERVAL + 1; and a
\* click, scroll or key notification never goes through the throttle.
C12_MoveThrottle ==
    /\ [](/\ \A a, b \in MoveStamps : a < b => b - a >= INTERVAL
          /\ \A a, b \in MoveStamps : a <= b =>
                Cardinality({c \in MoveStamps : a <= c /\ c <= b}) <= ((b - a) \div INTERVAL) + 1
          /\ Cardinality(MoveStamps)
                = Cardinality({j \in 1..Len(r_events) : r_events[j].type = "mouse_move"}))
    /\ [][ \A d \in Devices :
             (hd[d].pc = "ts" /\ hd[d].kind # "move" /\ hd'[d] # hd[d])
                => hd'[d].pc = "add" ]_vars

\* Two moves are in the buffer.
C12_Witness == Cardinality(MoveStamps) >= 2

\* C13: no KeyPress or KeyRelease event of the buffer is for F9, F10 or
\* Escape, and none is for a key without a name.
C13_ReservedKeysNotRecorded ==
    \A i \in 1..Len(r_events) :
        r_events[i].type \in {"key_press", "key_release"} =>
            /\ r_events[i].key \notin {_key_name(k) : k \in ReservedKeys}
            /\ r_events[i].key # None

\* C14: start() while Active changes nothing; while Idle it empties the
\* buffer, takes a new reference instant, resets the marker of the last
\* move and sets the state Active, with no handler of the session before
\* still to append; every event of the buffer was stamped in the session.
C14_Start ==
    /\ [][ rec_start =>
              IF r_recording
              THEN UNCHANGED <<r_events, r_start_time, r_last_move, r_recording,
                               listening, hd>>
              ELSE /\ r_events' = <<>> /\ event_count' = 0
                   /\ r_start_time' = now /\ r_last_move' = 0
                   /\ r_recording'
                   /\ \A d \in Devices : hd'[d].pc \in {"idle", "notify"}
          ]_vars
    /\ [](\A i \in 1..Len(r_events) :
              0 <= r_events[i].timestamp /\ r_events[i].timestamp <= _ts)

\* A second session has begun, after one that recorded something.
C14_Witness == r_recording /\ r_events = <<>> /\ Returned # <<>>

\* C15: stop() while Idle changes no state of the Recorder and returns the
\* buffer's content; while Active it sets the state Idle and returns the
\* buffer's content; and no other step changes what stop() returned.
C15_StopReturnsCopy ==
    [][ /\ (rec_stop_begin /\ ~r_recording) =>
              /\ Returned' = r_events
              /\ UNCHANGED <<r_events, r_recording, r_start_time, r_last_move, listening>>
        /\ (rec_stop_begin /\ r_recording) => ~r_recording'
        /\ rec_stop_kb => (Returned' = r_events' /\ ~r_recording')
        /\ ~(rec_stop_begin \/ rec_stop_kb) => Returned' = Returned
      ]_vars

\* A new session has emptied the buffer and appended to it after stop()
\* returned a sequence with an event.
C15_Witness ==
    /\ rcpc = "idle" /\ Returned # <<>>
    /\ r_recording /\ r_events # <<>> /\ r_events # Returned

\* C16: saving and loading give the macro back.  Every Event the application
\* holds is what Event.from_dict makes of its to_dict, the macro (name,
\* created_at, the events in their order) is what Macro.from_dict makes of
\* its to_dict, and to_dict has, besides "type" and "timestamp", a key for
\* exactly the fields that are present.
Present(e) == {f \in OptionalFields : e[f] # Absent}

C16_RoundTrip ==
    /\ Macro_from_dict(Macro_to_dict(Macro)) = Ok(Macro)
    /\ \A i \in 1..Len(callerList) :
          LET e == callerList[i] IN
              /\ Event_from_dict(Event_to_dict(e)) = Ok(e)
              /\ DOMAIN Event_to_dict(e)[2] = {"type", "timestamp"} \cup Present(e)

\* A macro with an event whose fields are present with values 0 and False
\* has been saved and loaded again.
C16_Witness ==
    /\ a_file = Macro_to_dict(Macro)
    /\ a_toast = <<"Loaded", Len(callerList)>>
    /\ \E i \in 1..Len(callerList) :
          callerList[i].x = Some(0) /\ callerList[i].pressed = Some(FALSE)

\* C17: a load of malformed data fails as a whole.  When "events" is absent
\* or no list, or an element has no "type" or no "timestamp", a type that is
\* no EventType or a timestamp that is no number, _open reports the format
\* error with the index of the first such element and leaves the macro (name,
\* created_at, events) as it was.
MalformedEvent(j) ==
    \/ j[1] # "obj"
    \/ /\ j[1] = "obj"
       /\ \/ "type" \notin DOMAIN j[2]
          \/ "timestamp" \notin DOMAIN j[2]
          \/ j[2]["type"][1] # "str"
          \/ j[2]["type"][1] = "str" /\ j[2]["type"][2] \notin EventTypeValues
          \/ j[2]["timestamp"][1] # "num"

MalformedAt(list) == {i \in 1..Len(list) : MalformedEvent(list[i])}

Malformed(data) ==
    /\ data[1] = "obj"
    /\ \/ "events" \notin DOMAIN data[2]
       \/ data[2]["events"][1] # "list"
       \/ data[2]["events"][1] = "list" /\ MalformedAt(data[2]["events"][2]) # {}

FirstMalformed(data) ==
    IF "events" \notin DOMAIN data[2] \/ data[2]["events"][1] # "list" THEN 0 - 1
    ELSE (CHOOSE i \in MalformedAt(data[2]["events"][2]) :
             \A k \in MalformedAt(data[2]["events"][2]) : i <= k) - 1

C17_MalformedLoadFails ==
    [][ \A data \in Files :
          (Malformed(data) /\ app_open(data)) =>
              /\ a_toast' = <<"Data format error", FirstMalformed(data)>>
              /\ callerList' = callerList
              /\ a_meta' = a_meta ]_vars

\* C18: the names of keys are the same in both directions.  A key of the
\* table "special" that was recorded is replayed as the same key; a name of
\* the table is found whatever its case; a name that is neither in the table
\* nor one alphanumeric or listed punctuation character gives no key.
TableKeys == {special[n] : n \in SpecialNames}

C18_KeyNameSymmetry ==
    /\ (k_pc = "replayed" /\ k_native \in TableKeys) => k_key = k_native
    /\ (k_pc = "played" /\ Lower(k_name) \in SpecialNames) => k_key = special[Lower(k_name)]
    /\ (k_pc = "played" /\ Lower(k_name) \notin SpecialNames
                        /\ k_name \notin Alnum \cup VALID_SPECIAL_CHARS) => k_key = NoKey

\* C19: in the application recording and playback never overlap: in no
\* state is the Recorder Active while a replay thread of the Player is
\* running a pass over the events.
C19_NoOverlap == ~(r_recording /\ \E t \in Threads : InPass(t))

\* C20: the order and the timing of one pass.  A pass begins with a fresh
\* reference instant, at its first event.  The thread injects the events of
\* the pass's timeline one after the other, each once and none before its
\* fire instant, reference + timestamp; an event whose fire instant has come
\* is injected at once, without a wait; and without a request to stop the
\* pass ends only after the last event.
InjectsNow(t) == InPass(t) /\ th'[t].pc = "iter" /\ th'[t].idx # th[t].idx

C20_PassStep(t) ==
    /\ (th[t].pc = "pass" /\ th'[t].pc = "iter") =>
            /\ th'[t].elapsed = 0 /\ th'[t].idx = 1
            /\ gh'[t].passEv = Deref(p_events)
    /\ InjectsNow(t) =>
            /\ th'[t].idx = th[t].idx + 1
            /\ th[t].idx <= Len(gh[t].passEv)
            /\ gh[t].passEv[th[t].idx].timestamp <= th[t].elapsed
            /\ \E raises \in BOOLEAN :
                  gh'[t] = Injected(t, gh[t].passEv[th[t].idx], raises)
    /\ (th[t].pc = "iter" /\ th'[t].pc = "sleep") =>
            /\ th'[t].idx = th[t].idx
            /\ gh[t].passEv[th[t].idx].timestamp > th[t].elapsed
    /\ (InPass(t) /\ th'[t].pc = "after" /\ ~p_stop_flag) =>
            th[t].idx = Len(gh[t].passEv) + 1

C20_PassOrderAndTiming == [][ \A t \in Threads : C20_PassStep(t) ]_vars

\* A thread has injected, after a wait, an event with a fire instant later
\* than the reference, and the event before it.
C20_Witness ==
    \E t \in Threads :
        /\ th[t].pc = "iter" /\ th[t].idx = 3
        /\ gh[t].passEv[2].timestamp > 0
        /\ th[t].elapsed >= gh[t].passEv[2].timestamp

\* C21: the replay of a MouseClick event whose button and pressed fields are
\* present makes one call on the mouse controller, a press when pressed is
\* true and a release when it is false, of the button named (the middle one
\* for a name other than left and right), and does not set the position.
C21_ClickReplay ==
    (/\ d_pc = "played" /\ d_event.type = "mouse_click"
     /\ d_event.button # Absent /\ d_event.pressed # Absent) =>
        /\ Len(d_log) = 1
        /\ d_log[1].op = (IF d_event.pressed[1] THEN "press" ELSE "release")
        /\ d_log[1].button = (IF d_event.button[1] \in {"left", "right"}
                              THEN d_event.button[1] ELSE "middle")

\* C22: every append to the buffer is followed by one call of on_event with
\* the event appended, made by the same handler after the append and when it
\* has released the mutex; a handler that discards its notification (Idle
\* recorder, throttled move, key without a name or excluded) makes no call.
CallsOnEvent(d) == hd[d].pc = "notify" /\ hd'[d] = IdleHandler

C22_HandlerStep(d) ==
    /\ r_events' # r_events /\ hd'[d] # hd[d] =>
            /\ r_events' = Append(r_events, NewEvent(hd[d]))
            /\ hd'[d] = [hd[d] EXCEPT !.pc = "unlock"]
    /\ (hd[d].pc = "unlock" /\ hd'[d] # hd[d]) =>
            /\ hd'[d] = [hd[d] EXCEPT !.pc = "notify"]
            /\ r_lock' # d
    /\ (hd[d].pc = "notify" /\ hd'[d] # hd[d]) => CallsOnEvent(d)
    /\ CallsOnEvent(d) => r_lock # d
    /\ (hd'[d].pc = "notify" /\ hd'[d] # hd[d]) => hd[d].pc = "unlock"

C22_OnEventPerAppend == [][ \A d \in Devices : C22_HandlerStep(d) ]_vars

\* A handler has appended its event, released the mutex and is at the call.
C22_Witness ==
    \E d \in Devices :
        /\ hd[d].pc = "notify" /\ r_lock = "free"
        /\ r_events # <<>> /\ r_events[Len(r_events)] = NewEvent(hd[d])

\* C23: at any time at most one replay thread of the Player is running a
\* pass over the events, whatever the calls of start() and stop().
C23_OneReplayThread == Cardinality({t \in Threads : InPass(t)}) <= 1

\* C24: while the flag stays set, a replay thread injects no event but the
\* one it was waiting for, lets no further pass into its loop, does not call
\* on_complete, sets the state to Idle on its way out, and exits.
C24_FlagStep(t) ==
    (p_stop_flag /\ p_stop_flag') =>
        /\ InjectsNow(t) => th[t].pc = "sleep"
        /\ th'[t].pc = "sleep" => th[t].pc = "sleep"
        /\ th'[t].pc = "pass" => th[t].pc = "pass"
        /\ (th[t].pc = "fin" /\ th'[t].pc # "fin") => ~p_playing'
        /\ gh'[t].completes = gh[t].completes

C24_AfterFlag ==
    /\ [][ \A t \in Threads : C24_FlagStep(t) ]_vars
    /\ \A t \in Threads : (Alive(t) /\ p_stop_flag) ~> (th[t].pc = "done" \/ ~p_stop_flag)

\* The flag is set, and a thread that stop() interrupted in a pass has
\* exited without a call of on_complete.
C24_Witness ==
    /\ p_stop_flag
    /\ \E t \in Threads : th[t].pc = "done" /\ gh[t].stopMid /\ gh[t].completes = 0

\* C25: a move that arrives less than INTERVAL after start() is discarded,
\* with no move recorded in the session yet: every MouseMove event of the
\* buffer, the first of a session too, has a timestamp of INTERVAL at least.
C25_FirstMoveLate ==
    /\ [](\A ts \in MoveStamps : ts >= INTERVAL)
    /\ [][ \A d \in Devices :
             (hd[d].pc = "throttle" /\ hd[d].t < INTERVAL /\ hd'[d] # hd[d]) =>
                 (hd'[d] = IdleHandler /\ r_events' = r_events) ]_vars

\* A move has arrived less than INTERVAL after start(), no move is in the
\* buffer, and the handler is at the test of the throttle.
C25_Witness ==
    \E d \in Devices :
        /\ hd[d].pc = "throttle" /\ hd[d].t < INTERVAL
        /\ r_recording /\ MoveStamps = {}

\* C26: the application's state agrees with the Player.  Between two
\* handlers of the main loop, when the App is in STATE_PLAYING the Player is
\* Playing, or a completion callback is waiting to be run, or a replay
\* thread is at the point of posting one.
C26_StateAgrees ==
    (a_state = STATE_PLAYING /\ apc = "idle") =>
        \/ p_playing
        \/ Pending > 0
        \/ \E t \in Threads : th[t].pc = "cb" /\ on_complete /\ ~p_stop_flag

====
